---- MODULE Spec2Model ----
(***************************************************************************)
(* Model of the Seastar smart-pointer bindings of the cxx crate:           *)
(*   SeastarLwSharedPtr<T>  (src/src/seastar_lw_shared_ptr.rs)             *)
(*   SeastarSharedPtr<T>    (src/src/seastar_shared_ptr.rs)                *)
(*                                                                         *)
(* One behaviour of the model is one instantiation Handle<kind, ty> of the *)
(* generic wrapper used by two execution contexts.  The Rust wrappers and  *)
(* the per-type descriptor (the *Target trait and its macro) are modelled  *)
(* from the source; the foreign trampolines behind the link names (the C++ *)
(* side of the bridge) are modelled from the interface description.        *)
(*                                                                         *)
(* A clone and a release are two steps each (call, return) so that the     *)
(* reference count is read and written in different steps when the foreign *)
(* handle is the non-atomic one.                                           *)
(***************************************************************************)
EXTENDS Integers, Sequences, FiniteSets, TLC

\* ---------------------------------------------------------------- bounds
MaxHandles == 3
MaxObjs == 1

\* The null sentinel: the address for which `ptr.is_null()` holds.
NullPtr == 0

Contexts == {1, 2}
Values == {42, 7}
Kinds == {"lw", "shared"}
Handles == 1..MaxHandles
Addrs == 1..MaxObjs

\* ---------------------------------------------------------- pointee types
\* A pointee type: its display name, its link-name segment, whether it has a
\* value-construct binding, whether it is ExternType<Kind = Trivial>, and
\* whether it is declared Send / Sync.
Primitive(n) ==
    [name |-> n, segment |-> n, binding |-> TRUE, trivial |-> TRUE,
     send |-> TRUE, sync |-> TRUE]

\* impl_shared_ptr_target!("string", "CxxString", CxxString): bound by the
\* macro, not constructible by value; its thread markers are an input.
StringTypes ==
    {[name |-> "CxxString", segment |-> "string", binding |-> TRUE,
      trivial |-> FALSE, send |-> s, sync |-> y] : s \in BOOLEAN, y \in BOOLEAN}

\* A foreign-opaque pointee: implements the Target trait without __new, so it
\* uses the trait's default; its thread markers are an input.
OpaqueTypes ==
    {[name |-> "Opaque", segment |-> "Opaque", binding |-> FALSE,
      trivial |-> FALSE, send |-> s, sync |-> y] : s \in BOOLEAN, y \in BOOLEAN}

PointeeTypes == {Primitive("u32")} \cup StringTypes \cup OpaqueTypes

VARIABLES
    kind,       \* the handle kind of this instantiation
    ty,         \* its pointee type
    status,     \* per handle slot: none, uninit, live, dropping, dropped
    repr,       \* per handle: the opaque buffer, a sequence of words
    owner,      \* per handle: the execution context holding it (0: nobody)
    origin,     \* per handle: how it was made (history)
    heap,       \* per address: the foreign object and its reference count
    pc,         \* per context: idle, clone, drop
    arg,        \* per context: the call in progress
    drops,      \* per handle: completed __drop calls (history)
    created,    \* per address: handles made for the object (history)
    released,   \* per address: releases applied to the object (history)
    frees,      \* per address: times the object was deallocated (history)
    crossed,    \* some handle was moved to or used from another context
    raced,      \* two contexts were inside clone/drop of one object at once
    ub,         \* a release reached an object that was already freed
    last        \* the last completed operation and what it returned

vars == <<kind, ty, status, repr, owner, origin, heap, pc, arg, drops,
          created, released, frees, crossed, raced, ub, last>>

\* ------------------------------------------------- foreign side (C++ half)
\* The symbol of one trampoline: fixed prefix, handle kind, segment, operation.
\* Variant: the full handle bound to the compact handle's symbols.
link_kind_lw(k) == "lw_shared_ptr"
link_kind(k) == IF k = "shared" THEN "shared_ptr" ELSE "lw_shared_ptr"

link_name(k, segment, op) ==
    <<"cxxbridge1$seastar$", link_kind(k), "$", segment, "$", op>>

foreign_atomic(sym) == sym[2] = "shared_ptr"

\* null(buffer): write the empty representation (one word, or two).
foreign_null(sym) ==
    IF sym[2] = "shared_ptr" THEN <<NullPtr, NullPtr>> ELSE <<NullPtr>>

\* uninit(buffer) -> storage: allocate an object at address a owned by buffer.
foreign_uninit(sym, a) ==
    IF sym[2] = "shared_ptr" THEN <<a, a>> ELSE <<a>>

\* get(buffer): the pointee address held by the buffer.
foreign_get(sym, buf) ==
    IF sym[2] = "shared_ptr" THEN buf[2] ELSE buf[1]

\* The control block a buffer refers to (its first word).
foreign_target(sym, buf) == buf[1]

\* clone(src, dst): the representation copied into the new buffer.
foreign_clone(sym, buf) == buf

\* The count written by clone / drop: an atomic read-modify-write for the
\* full handle, a plain store of (loaded value +/- 1) for the compact one.
foreign_inc(sym, cur, tmp) == IF foreign_atomic(sym) THEN cur + 1 ELSE tmp + 1
foreign_dec(sym, cur, tmp) == IF foreign_atomic(sym) THEN cur - 1 ELSE tmp - 1

\* ------------------------------------------------ descriptor (Target trait)
\* Variant: the link segment written instead of the display name.
__typename_segment(t) == t.segment
__typename(t) == t.name

\* Variant: the buffer left as allocated, T::__null not called.
__null_uninit(k, t) == <<1, 1>>
__null(k, t) == foreign_null(link_name(k, t.segment, "null"))

__get(k, t, buf) == foreign_get(link_name(k, t.segment, "get"), buf)

\* Variant: the new buffer left as allocated, T::__clone not called.
__clone_uninit(k, t, buf, cur, tmp) == [buf |-> <<1, 1>>, count |-> cur]
\* Variant: a bitwise copy of the buffer, the count left alone.
__clone_bitcopy(k, t, buf, cur, tmp) == [buf |-> buf, count |-> cur]
__clone(k, t, buf, cur, tmp) ==
    LET sym == link_name(k, t.segment, "clone")
    IN  [buf |-> foreign_clone(sym, buf), count |-> foreign_inc(sym, cur, tmp)]

__drop(k, t, cur, tmp) == foreign_dec(link_name(k, t.segment, "drop"), cur, tmp)

\* The object a buffer's clone / drop trampoline works on.
target(k, t, buf) == foreign_target(link_name(k, t.segment, "clone"), buf)

\* Variant: the storage is allocated but the value is never written.
impl__new_nowrite(k, t, v, a) ==
    [panic |-> FALSE,
     buf |-> foreign_uninit(link_name(k, t.segment, "uninit"), a),
     obj |-> [st |-> "live", count |-> 1, val |-> 0]]
\* __new of the macro: __uninit(new).cast::<T>().write(value)
impl__new(k, t, v, a) ==
    [panic |-> FALSE,
     buf |-> foreign_uninit(link_name(k, t.segment, "uninit"), a),
     obj |-> [st |-> "live", count |-> 1, val |-> v]]

\* Variant: a default body that returns instead of panicking.
default__new_returns(k, t, v, a) ==
    [panic |-> FALSE, buf |-> <<NullPtr, NullPtr>>,
     obj |-> [st |-> "unalloc", count |-> 0, val |-> 0]]
\* __new of the trait (the default): unreachable!()
default__new(k, t, v, a) ==
    [panic |-> TRUE, buf |-> <<>>,
     obj |-> [st |-> "unalloc", count |-> 0, val |-> 0]]

__new(k, t, v, a) ==
    IF t.binding THEN impl__new(k, t, v, a) ELSE default__new(k, t, v, a)

\* ------------------------------------------------------- wrapper observers
\* Variant: the null test negated.
is_null_inverted(k, t, buf) == __get(k, t, buf) # NullPtr
is_null(k, t, buf) == __get(k, t, buf) = NullPtr

\* Option<&T> as an address: NullPtr stands for None.
as_ref(k, t, buf) == __get(k, t, buf)

HandleName(k) == IF k = "shared" THEN "SeastarSharedPtr" ELSE "SeastarLwSharedPtr"

\* Variant: the full handle's deref hands out the reference unchecked.
deref_shared_unchecked(k, t, buf) ==
    IF as_ref(k, t, buf) # NullPtr \/ k = "shared"
    THEN [outcome |-> "ref", ref |-> as_ref(k, t, buf), msg |-> <<>>]
    ELSE [outcome |-> "panic", ref |-> NullPtr,
          msg |-> <<"called deref on a null ", HandleName(k), "<",
                    __typename(t), ">">>]
deref(k, t, buf) ==
    IF as_ref(k, t, buf) # NullPtr
    THEN [outcome |-> "ref", ref |-> as_ref(k, t, buf), msg |-> <<>>]
    ELSE [outcome |-> "panic", ref |-> NullPtr,
          msg |-> <<"called deref on a null ", HandleName(k), "<",
                    __typename(t), ">">>]

\* Variants: T::__drop called twice, or not at all.
drop_body_twice == <<"drop", "drop">>
drop_body_empty == <<>>
\* The trampolines Drop::drop invokes, in order.
drop_body == <<"drop">>

\* ------------------------------------------------- thread-safety markers
\* Variant: Send granted on T: Send alone.
HandleSend_only(k, t) == k = "shared" /\ t.send
HandleSend(k, t) == k = "shared" /\ t.send /\ t.sync
HandleSync(k, t) == k = "shared" /\ t.send /\ t.sync

\* ------------------------------------------------------------- helpers
NoOrigin == [op |-> "none", src |-> 0, addr |-> NullPtr, val |-> 0]
NoArg == [h |-> 0, g |-> 0, tmp |-> 0, n |-> 0]
NoObj == [st |-> "unalloc", count |-> 0, val |-> 0]

FreeSlots == {h \in Handles : status[h] = "none"}
NextSlot == CHOOSE h \in FreeSlots : \A x \in FreeSlots : h <= x
FreeAddrs == {a \in Addrs : heap[a].st = "unalloc"}
NextAddr == CHOOSE a \in FreeAddrs : \A x \in FreeAddrs : a <= x

\* The value read through an address (0 when nothing is there).
ValAt(a) == IF a \in Addrs THEN heap[a].val ELSE 0
CountAt(a) == IF a \in Addrs THEN heap[a].count ELSE 0

\* A context may use a handle it holds, or one shared with it by reference.
Access(c, h) == owner[h] = c \/ HandleSync(kind, ty)

\* A handle is borrowed while some context is cloning from it.
Borrowed(h) == \E c \in Contexts : pc[c] = "clone" /\ arg[c].h = h

\* The object context c is working on, if any.
Busy(c) ==
    IF pc[c] = "idle" THEN NullPtr ELSE target(kind, ty, repr[arg[c].h])

Done(op, h, isnull, ref, val, msg, calls) ==
    [op |-> op, h |-> h, null |-> isnull, ref |-> ref, val |-> val,
     msg |-> msg, calls |-> calls]

Sym(op) == link_name(kind, ty.segment, op)

\* ------------------------------------------------------------------ Init
Init ==
    /\ kind \in Kinds
    /\ ty \in PointeeTypes
    /\ status = [h \in Handles |-> "none"]
    /\ repr = [h \in Handles |-> <<>>]
    /\ owner = [h \in Handles |-> 0]
    /\ origin = [h \in Handles |-> NoOrigin]
    /\ heap = [a \in Addrs |-> NoObj]
    /\ pc = [c \in Contexts |-> "idle"]
    /\ arg = [c \in Contexts |-> NoArg]
    /\ drops = [h \in Handles |-> 0]
    /\ created = [a \in Addrs |-> 0]
    /\ released = [a \in Addrs |-> 0]
    /\ frees = [a \in Addrs |-> 0]
    /\ crossed = FALSE
    /\ raced = FALSE
    /\ ub = FALSE
    /\ last = [op |-> "init", h |-> 0, null |-> FALSE, ref |-> NullPtr,
               val |-> 0, msg |-> <<>>, calls |-> <<>>]

\* --------------------------------------------------------------- actions
\* SeastarSharedPtr::null / SeastarLwSharedPtr::null
null(c) ==
    /\ pc[c] = "idle"
    /\ FreeSlots # {}
    /\ LET h == NextSlot
       IN  /\ status' = [status EXCEPT ![h] = "live"]
           /\ repr' = [repr EXCEPT ![h] = __null(kind, ty)]
           /\ owner' = [owner EXCEPT ![h] = c]
           /\ origin' = [origin EXCEPT ![h] =
                            [op |-> "null", src |-> 0, addr |-> NullPtr, val |-> 0]]
           /\ last' = Done("null", h, FALSE, NullPtr, 0, <<>>, <<Sym("null")>>)
    /\ UNCHANGED <<kind, ty, heap, pc, arg, drops, created, released, frees,
                   crossed, raced, ub>>

\* The body shared by new() and by a direct dispatch of T::__new.
construct(c, v) ==
    /\ pc[c] = "idle"
    /\ FreeSlots # {}
    /\ FreeAddrs # {}
    /\ LET h == NextSlot
           a == NextAddr
           r == __new(kind, ty, v, a)
       IN  IF r.panic
           THEN /\ last' = Done("new", 0, FALSE, NullPtr, 0,
                                <<"unreachable">>, <<>>)
                /\ UNCHANGED <<status, repr, owner, origin, heap, created>>
           ELSE /\ status' = [status EXCEPT ![h] = "live"]
                /\ repr' = [repr EXCEPT ![h] = r.buf]
                /\ owner' = [owner EXCEPT ![h] = c]
                /\ origin' = [origin EXCEPT ![h] =
                                 [op |-> "new", src |-> 0, addr |-> a, val |-> v]]
                /\ heap' = [heap EXCEPT ![a] = r.obj]
                /\ created' = [created EXCEPT ![a] = 1]
                /\ last' = Done("new", h, FALSE, a, v, <<>>, <<Sym("uninit")>>)
    /\ UNCHANGED <<kind, ty, pc, arg, drops, released, frees, crossed, raced, ub>>

\* SeastarSharedPtr::new: only where T: ExternType<Kind = Trivial>.
new(c, v) == ty.trivial /\ construct(c, v)

\* T::__new dispatched for a pointee without a value-construct binding.
new_unbound(c, v) == ~ty.binding /\ construct(c, v)

\* is_null(), as_ref(), deref() on a handle the context can reach.
call_is_null(c, h) ==
    /\ pc[c] = "idle" /\ status[h] = "live" /\ Access(c, h)
    /\ last' = Done("is_null", h, is_null(kind, ty, repr[h]), NullPtr, 0,
                    <<>>, <<Sym("get")>>)
    /\ crossed' = (crossed \/ owner[h] # c)
    /\ UNCHANGED <<kind, ty, status, repr, owner, origin, heap, pc, arg, drops,
                   created, released, frees, raced, ub>>

call_as_ref(c, h) ==
    /\ pc[c] = "idle" /\ status[h] = "live" /\ Access(c, h)
    /\ LET r == as_ref(kind, ty, repr[h])
       IN  last' = Done("as_ref", h, r = NullPtr, r, ValAt(r), <<>>,
                        <<Sym("get")>>)
    /\ crossed' = (crossed \/ owner[h] # c)
    /\ UNCHANGED <<kind, ty, status, repr, owner, origin, heap, pc, arg, drops,
                   created, released, frees, raced, ub>>

call_deref(c, h) ==
    /\ pc[c] = "idle" /\ status[h] = "live" /\ Access(c, h)
    /\ LET d == deref(kind, ty, repr[h])
       IN  last' = Done("deref", h, d.outcome = "panic", d.ref, ValAt(d.ref),
                        d.msg, <<Sym("get")>>)
    /\ crossed' = (crossed \/ owner[h] # c)
    /\ UNCHANGED <<kind, ty, status, repr, owner, origin, heap, pc, arg, drops,
                   created, released, frees, raced, ub>>

\* Clone::clone, entry: a fresh uninitialised buffer, T::__clone(this, new)
\* is called and the foreign side loads the count.
clone(c, h) ==
    /\ pc[c] = "idle" /\ status[h] = "live" /\ Access(c, h)
    /\ FreeSlots # {}
    /\ LET g == NextSlot
           a == target(kind, ty, repr[h])
       IN  /\ status' = [status EXCEPT ![g] = "uninit"]
           /\ owner' = [owner EXCEPT ![g] = c]
           /\ pc' = [pc EXCEPT ![c] = "clone"]
           /\ arg' = [arg EXCEPT ![c] =
                         [h |-> h, g |-> g, tmp |-> CountAt(a), n |-> 1]]
           /\ raced' = (raced \/ (a # NullPtr /\
                                  \E d \in Contexts \ {c} : Busy(d) = a))
    /\ crossed' = (crossed \/ owner[h] # c)
    /\ UNCHANGED <<kind, ty, repr, origin, heap, drops, created, released,
                   frees, ub, last>>

\* Clone::clone, return: the count is stored, the new buffer is written and
\* assume_init() hands out the new handle.
clone_ret(c) ==
    /\ pc[c] = "clone"
    /\ LET h == arg[c].h
           g == arg[c].g
           a == target(kind, ty, repr[h])
           r == __clone(kind, ty, repr[h], CountAt(a), arg[c].tmp)
       IN  /\ status' = [status EXCEPT ![g] = "live"]
           /\ repr' = [repr EXCEPT ![g] = r.buf]
           /\ origin' = [origin EXCEPT ![g] =
                            [op |-> "clone", src |-> h,
                             addr |-> as_ref(kind, ty, repr[h]),
                             val |-> ValAt(as_ref(kind, ty, repr[h]))]]
           /\ IF a \in Addrs
              THEN /\ heap' = [heap EXCEPT ![a].count = r.count]
                   /\ created' = [created EXCEPT ![a] = @ + 1]
              ELSE UNCHANGED <<heap, created>>
           /\ last' = Done("clone", g, FALSE, NullPtr, 0, <<>>, <<Sym("clone")>>)
    /\ pc' = [pc EXCEPT ![c] = "idle"]
    /\ arg' = [arg EXCEPT ![c] = NoArg]
    /\ UNCHANGED <<kind, ty, owner, drops, released, frees, crossed, raced, ub>>

\* Drop::drop, entry (scope exit of the handle): T::__drop(this) is called
\* and the foreign side loads the count.
drop(c, h) ==
    /\ pc[c] = "idle" /\ status[h] = "live" /\ owner[h] = c /\ ~Borrowed(h)
    /\ LET a == target(kind, ty, repr[h])
       IN  IF Len(drop_body) = 0
           THEN /\ status' = [status EXCEPT ![h] = "dropped"]
                /\ repr' = [repr EXCEPT ![h] = <<>>]
                /\ owner' = [owner EXCEPT ![h] = 0]
                /\ last' = Done("drop", h, FALSE, NullPtr, 0, <<>>, <<>>)
                /\ UNCHANGED <<pc, arg, raced>>
           ELSE /\ status' = [status EXCEPT ![h] = "dropping"]
                /\ pc' = [pc EXCEPT ![c] = "drop"]
                /\ arg' = [arg EXCEPT ![c] =
                              [h |-> h, g |-> 0, tmp |-> CountAt(a),
                               n |-> Len(drop_body)]]
                /\ raced' = (raced \/ (a # NullPtr /\
                                       \E d \in Contexts \ {c} : Busy(d) = a))
                /\ UNCHANGED <<repr, owner, last>>
    /\ UNCHANGED <<kind, ty, origin, heap, drops, created, released, frees,
                   crossed, ub>>

\* Drop::drop, return of one T::__drop call: the count is stored and the
\* object is deallocated when it reaches zero.
drop_ret(c) ==
    /\ pc[c] = "drop"
    /\ LET h == arg[c].h
           a == target(kind, ty, repr[h])
           n == __drop(kind, ty, CountAt(a), arg[c].tmp)
           more == arg[c].n > 1
       IN  /\ drops' = [drops EXCEPT ![h] = @ + 1]
           /\ IF a \notin Addrs
              THEN UNCHANGED <<heap, released, frees, ub>>
              ELSE IF heap[a].st # "live"
                   THEN /\ ub' = TRUE
                        /\ released' = [released EXCEPT ![a] = @ + 1]
                        /\ UNCHANGED <<heap, frees>>
                   ELSE /\ heap' = [heap EXCEPT ![a].count = n,
                                                ![a].st = IF n = 0 THEN "freed"
                                                          ELSE "live"]
                        /\ released' = [released EXCEPT ![a] = @ + 1]
                        /\ frees' = [frees EXCEPT ![a] =
                                        IF n = 0 THEN @ + 1 ELSE @]
                        /\ UNCHANGED ub
           /\ IF more
              THEN /\ arg' = [arg EXCEPT ![c].n = @ - 1,
                                         ![c].tmp = IF a \in Addrs
                                                    THEN heap'[a].count ELSE 0]
                   /\ UNCHANGED <<status, repr, owner, pc, last>>
              ELSE /\ status' = [status EXCEPT ![h] = "dropped"]
                   /\ repr' = [repr EXCEPT ![h] = <<>>]
                   /\ owner' = [owner EXCEPT ![h] = 0]
                   /\ pc' = [pc EXCEPT ![c] = "idle"]
                   /\ arg' = [arg EXCEPT ![c] = NoArg]
                   /\ last' = Done("drop", h, FALSE, NullPtr, 0, <<>>,
                                   <<Sym("drop")>>)
    /\ UNCHANGED <<kind, ty, origin, created, crossed, raced>>

\* Moving a handle to another context: needs SeastarSharedPtr<T>: Send.
transfer(h, c2) ==
    /\ status[h] = "live" /\ owner[h] # c2
    /\ pc[owner[h]] = "idle" /\ ~Borrowed(h)
    /\ HandleSend(kind, ty)
    /\ owner' = [owner EXCEPT ![h] = c2]
    /\ crossed' = TRUE
    /\ UNCHANGED <<kind, ty, status, repr, origin, heap, pc, arg, drops,
                   created, released, frees, raced, ub, last>>

\* One execution context: everything a single thread can do with its handles.
Next ==
    \/ \E c \in {1} : null(c)
    \/ \E c \in {1}, v \in Values : new(c, v)
    \/ \E c \in {1}, v \in Values : new_unbound(c, v)
    \/ \E c \in {1}, h \in Handles : call_is_null(c, h)
    \/ \E c \in {1}, h \in Handles : call_as_ref(c, h)
    \/ \E c \in {1}, h \in Handles : call_deref(c, h)
    \/ \E c \in {1}, h \in Handles : clone(c, h)
    \/ \E c \in {1} : clone_ret(c)
    \/ \E c \in {1}, h \in Handles : drop(c, h)
    \/ \E c \in {1} : drop_ret(c)

Spec == Init /\ [][Next]_vars

\* Two execution contexts.  Context 1 constructs the handles; context 2 gets
\* them by a move (Send) or uses them through a shared reference (Sync),
\* wherever the markers allow it.
NextMT ==
    \/ \E c \in {1} : null(c)
    \/ \E c \in {1} : new(c, 42)
    \/ \E c \in Contexts, h \in Handles : call_as_ref(c, h)
    \/ \E c \in Contexts, h \in Handles : clone(c, h)
    \/ \E c \in Contexts : clone_ret(c)
    \/ \E c \in Contexts, h \in Handles : drop(c, h)
    \/ \E c \in Contexts : drop_ret(c)
    \/ \E h \in Handles, c \in Contexts : transfer(h, c)

SpecMT == Init /\ [][NextMT]_vars

\* ------------------------------------------------------------ properties
\* The handles that own a share of object a.
Refs(a) ==
    {h \in Handles : status[h] \in {"live", "dropping"}
                     /\ target(kind, ty, repr[h]) = a}

LiveAllocs == Cardinality({a \in Addrs : heap[a].st = "live"})

ThreadSafe == kind = "shared" /\ ty.send /\ ty.sync

\* C1 (clone law): a clone of an owning handle reads the same address as its
\* source, and whichever of the two is still alive after the other was
\* dropped is non-null and refers to a live object holding the same value.
C1_CloneLaw ==
    \A g \in Handles :
        (origin[g].op = "clone" /\ origin[g].addr # NullPtr) =>
            \A x \in {g, origin[g].src} :
                status[x] = "live" =>
                    /\ as_ref(kind, ty, repr[x]) = origin[g].addr
                    /\ ~is_null(kind, ty, repr[x])
                    /\ heap[origin[g].addr].st = "live"
                    /\ heap[origin[g].addr].val = origin[g].val

C1_Witness ==
    \E g \in Handles :
        /\ origin[g].op = "clone" /\ origin[g].addr # NullPtr
        /\ status[origin[g].src] = "dropped" /\ status[g] = "live"
        /\ last.op = "as_ref" /\ last.h = g
        /\ last.ref = origin[g].addr /\ last.val = origin[g].val

\* C2 (release exactly once): __drop has run once for every dropped handle
\* and never for a handle still in scope; no object gets more releases than
\* handles were made for it, and no release reaches a freed object.
C2_ReleaseOnce ==
    /\ \A h \in Handles :
          /\ status[h] \in {"none", "uninit", "live", "dropping"} => drops[h] = 0
          /\ status[h] = "dropped" => drops[h] = 1
    /\ \A a \in Addrs : released[a] <= created[a]
    /\ ~ub

C2_Witness ==
    \E h \in Handles, g \in Handles :
        /\ origin[h].op = "new" /\ origin[g].op = "clone" /\ origin[g].src = h
        /\ status[h] = "dropped" /\ status[g] = "dropped"
        /\ drops[h] = 1 /\ drops[g] = 1
        /\ released[origin[h].addr] = created[origin[h].addr]

\* C3 (freed at the last drop, not before): an object is allocated and not
\* yet freed exactly while some handle of its clone chain is in scope, every
\* such handle still reads the constructed value, and once every handle is
\* gone no allocation is left.
C3_FreedAtLastDrop ==
    /\ \A a \in Addrs : (heap[a].st = "live") <=> (Refs(a) # {})
    /\ \A h \in Handles :
          (status[h] = "live" /\ origin[h].addr # NullPtr) =>
              ValAt(as_ref(kind, ty, repr[h])) = origin[h].val
    /\ (\A h \in Handles : status[h] \in {"none", "dropped"}) => LiveAllocs = 0

C3_Witness ==
    /\ kind = "lw" /\ ty.name = "u32"
    /\ origin[1].op = "new" /\ origin[1].val = 42
    /\ origin[2].op = "clone" /\ origin[2].src = 1
    /\ origin[3].op = "clone" /\ origin[3].src = 1
    /\ \A h \in {1, 2, 3} : status[h] = "dropped"
    /\ last.op = "drop" /\ last.h \in {2, 3}
    /\ heap[origin[1].addr].st = "freed" /\ LiveAllocs = 0

\* C4 (null handles): a handle made by null() is null and has no referent
\* for as long as it lives, and that is what is_null() and as_ref() returned.
C4_NullIsNull ==
    /\ \A h \in Handles :
          (status[h] = "live" /\ origin[h].op = "null") =>
              /\ is_null(kind, ty, repr[h])
              /\ as_ref(kind, ty, repr[h]) = NullPtr
    /\ (last.op = "is_null" /\ origin[last.h].op = "null") => last.null
    /\ (last.op = "as_ref" /\ origin[last.h].op = "null") =>
          (last.null /\ last.ref = NullPtr)

C4_Witness ==
    /\ last.op = "as_ref" /\ origin[last.h].op = "null"
    /\ last.null /\ last.ref = NullPtr
    /\ \E g \in Handles : origin[g].op = "clone" /\ origin[g].src = last.h

\* C5 (new holds the value): a handle made by new(v) is non-null and reads v
\* through get for as long as it lives.
C5_NewHoldsValue ==
    /\ \A h \in Handles :
          (status[h] = "live" /\ origin[h].op = "new") =>
              /\ ~is_null(kind, ty, repr[h])
              /\ as_ref(kind, ty, repr[h]) = origin[h].addr
              /\ origin[h].addr \in Addrs
              /\ heap[origin[h].addr].st = "live"
              /\ heap[origin[h].addr].val = origin[h].val
              /\ origin[h].val \in Values
    /\ (last.op = "new" /\ last.h # 0) =>
          (origin[last.h].val = last.val /\ origin[last.h].addr = last.ref)
    /\ (last.op = "is_null" /\ origin[last.h].op = "new") => ~last.null
    /\ (last.op = "as_ref" /\ origin[last.h].op = "new") =>
          (~last.null /\ last.val = origin[last.h].val)

C5_Witness ==
    /\ last.op = "as_ref" /\ origin[last.h].op = "new"
    /\ ~last.null /\ last.val = 7

\* C6 (deref): deref of a null handle panics with a message naming the
\* pointee type and yields no reference; deref of a non-null handle yields
\* the reference as_ref yields and does not panic.
C6_Deref ==
    /\ \A h \in Handles :
          status[h] = "live" =>
              LET d == deref(kind, ty, repr[h])
              IN  IF is_null(kind, ty, repr[h])
                  THEN /\ d.outcome = "panic" /\ d.ref = NullPtr
                       /\ Len(d.msg) = 5
                       /\ d.msg[2] = HandleName(kind) /\ d.msg[4] = ty.name
                  ELSE /\ d.outcome = "ref" /\ d.msg = <<>>
                       /\ d.ref = as_ref(kind, ty, repr[h])
    /\ last.op = "deref" =>
          IF origin[last.h].addr = NullPtr
          THEN last.null /\ last.ref = NullPtr /\ last.msg[4] = ty.name
          ELSE ~last.null /\ last.ref = origin[last.h].addr /\ last.msg = <<>>

C6_Witness ==
    /\ last.op = "deref" /\ last.null
    /\ ty.name = "CxxString" /\ last.msg[4] = "CxxString"
    /\ kind = "lw" /\ last.msg[2] = "SeastarLwSharedPtr"

\* C9 (observers are pure): is_null() is true exactly when as_ref() is None;
\* both call only the get trampoline, and a step that is one of them changes
\* no buffer, no reference count, no value and no allocation.
C9_State ==
    /\ \A h \in Handles :
          status[h] = "live" =>
              (is_null(kind, ty, repr[h]) <=> as_ref(kind, ty, repr[h]) = NullPtr)
    /\ last.op \in {"is_null", "as_ref"} =>
          /\ last.calls = <<link_name(kind, ty.segment, "get")>>
          /\ last.null <=> (origin[last.h].addr = NullPtr)

\* C9, complete: the state part above, and the frame of an observer step.
C9_ObserversPure ==
    /\ []C9_State
    /\ [][(last' # last /\ last'.op \in {"is_null", "as_ref"}) =>
            UNCHANGED <<status, repr, owner, heap, pc, arg, drops, created,
                        released, frees, ub>>]_vars

C9_Witness ==
    /\ last.op = "is_null" /\ ~last.null
    /\ status[last.h] = "live"
    /\ heap[origin[last.h].addr].count = 2

\* C10 (value-construct without a binding): for a pointee type that has no
\* value-construct binding, a dispatched __new panics; no handle is ever made
\* by it and no foreign object is allocated.
C10_UnboundNewAborts ==
    ~ty.binding =>
        /\ \A h \in Handles : origin[h].op # "new"
        /\ \A a \in Addrs : heap[a] = NoObj
        /\ last.op = "new" =>
              (last.h = 0 /\ last.msg = <<"unreachable">> /\ last.calls = <<>>)

C10_Witness ==
    /\ ~ty.binding
    /\ last.op = "new" /\ last.msg = <<"unreachable">>
    /\ \E h \in Handles : status[h] = "live"
    /\ FreeSlots # {}

\* C7 (concurrent clone and release of a thread-safe FullHandle): in every
\* interleaving of the two contexts the count equals the number of handles
\* in scope, the object is alive while any of them is, and it is freed once.
C7_ConcurrentRefcount ==
    ThreadSafe =>
        /\ ~ub
        /\ \A a \in Addrs :
              /\ heap[a].st = "live" =>
                    /\ heap[a].count = Cardinality(Refs(a))
                    /\ Refs(a) # {}
                    /\ frees[a] = 0
              /\ heap[a].st = "freed" => (Refs(a) = {} /\ frees[a] = 1)
              /\ heap[a].st = "unalloc" => (Refs(a) = {} /\ frees[a] = 0)

C7_Witness ==
    /\ ThreadSafe /\ raced /\ crossed
    /\ \E a \in Addrs :
          heap[a].st = "freed" /\ frees[a] = 1 /\ created[a] >= 3

\* C8 (cross-thread capability): a handle can be moved to, or used from,
\* another context exactly when it is a SeastarSharedPtr whose pointee is
\* Send + Sync; no other handle ever leaves the context that made it.
C8_CrossThreadIff ==
    /\ crossed => ThreadSafe
    /\ \A h \in Handles :
          (status[h] \in {"live", "dropping"} /\ owner[h] # 1) => ThreadSafe
    /\ \A h \in Handles :
          (status[h] = "live" /\ ~Borrowed(h) /\ \A c \in Contexts : pc[c] = "idle") =>
              \A c \in Contexts \ {owner[h]} :
                  /\ (ENABLED transfer(h, c)) <=> ThreadSafe
                  /\ (ENABLED call_as_ref(c, h)) <=> ThreadSafe

C8_Witness ==
    /\ crossed
    /\ \E h \in Handles : status[h] = "live" /\ owner[h] = 2
    /\ \E h \in Handles : status[h] = "live" /\ owner[h] = 1

\* The other handle kind, and the buffer of the other kind that holds the
\* same control block and pointee.
Other(k) == IF k = "shared" THEN "lw" ELSE "shared"

Twin(k, buf) ==
    IF buf = <<>> THEN <<>>
    ELSE IF k = "shared" THEN <<buf[1]>> ELSE <<buf[1], buf[1]>>

\* C11 (same contract in one context): in every state one context can reach,
\* each operation gives the same result on a handle of this kind and on the
\* corresponding handle of the other kind: null and new build corresponding
\* buffers, is_null, as_ref and deref return the same null-ness, address and
\* fatal condition (naming the same pointee type), and a clone or drop in
\* progress stores the same count, so the object is freed at the same point.
C11_SameContract ==
    LET k2 == Other(kind)
    IN  /\ Twin(kind, __null(kind, ty)) = __null(k2, ty)
        /\ \A v \in Values, a \in Addrs :
              LET r1 == __new(kind, ty, v, a)
                  r2 == __new(k2, ty, v, a)
              IN  /\ r1.panic = r2.panic
                  /\ r1.obj = r2.obj
                  /\ Twin(kind, r1.buf) = r2.buf
        /\ \A h \in Handles :
              status[h] \in {"live", "dropping"} =>
                  LET b1 == repr[h]
                      b2 == Twin(kind, repr[h])
                      d1 == deref(kind, ty, b1)
                      d2 == deref(k2, ty, b2)
                  IN  /\ is_null(kind, ty, b1) = is_null(k2, ty, b2)
                      /\ as_ref(kind, ty, b1) = as_ref(k2, ty, b2)
                      /\ target(kind, ty, b1) = target(k2, ty, b2)
                      /\ d1.outcome = d2.outcome /\ d1.ref = d2.ref
                      /\ Len(d1.msg) = Len(d2.msg)
                      /\ d1.outcome = "panic" => d1.msg[4] = d2.msg[4]
        /\ \A c \in Contexts :
              /\ pc[c] = "clone" =>
                    LET b1 == repr[arg[c].h]
                        n == CountAt(target(kind, ty, b1))
                        r1 == __clone(kind, ty, b1, n, arg[c].tmp)
                        r2 == __clone(k2, ty, Twin(kind, b1), n, arg[c].tmp)
                    IN  Twin(kind, r1.buf) = r2.buf /\ r1.count = r2.count
              /\ pc[c] = "drop" =>
                    LET n == CountAt(target(kind, ty, repr[arg[c].h]))
                    IN  __drop(kind, ty, n, arg[c].tmp)
                            = __drop(k2, ty, n, arg[c].tmp)

C11_Witness ==
    /\ kind = "shared" /\ pc[1] = "drop"
    /\ \E a \in Addrs :
          /\ target(kind, ty, repr[arg[1].h]) = a
          /\ heap[a].count = 1 /\ created[a] = 3 /\ released[a] = 2
    /\ last.op = "deref"

\* A handle that owns nothing: made by null(), or cloned from such a handle.
NullMade(h) == origin[h].op \in {"null", "clone"} /\ origin[h].addr = NullPtr

C12_State ==
    /\ \A g \in Handles :
          (status[g] = "live" /\ origin[g].op = "clone"
             /\ NullMade(origin[g].src)) =>
              /\ is_null(kind, ty, repr[g])
              /\ as_ref(kind, ty, repr[g]) = NullPtr
              /\ target(kind, ty, repr[g]) = NullPtr
    /\ (last.op \in {"is_null", "as_ref"} /\ NullMade(last.h)) =>
          (last.null /\ last.ref = NullPtr)

\* C12 (null handles and the count): a clone of a null handle is null
\* (is_null() true, as_ref() None), and no step of a clone or a drop of a
\* null handle changes any object's count, value or allocation state.
C12_NullClones ==
    /\ []C12_State
    /\ [][(\E c \in Contexts :
              /\ pc'[c] # pc[c]
              /\ \/ pc[c] # "idle" /\ NullMade(arg[c].h)
                 \/ pc'[c] # "idle" /\ NullMade(arg'[c].h))
            => UNCHANGED <<heap, frees>>]_vars

C12_Witness ==
    /\ \E h \in Handles, g \in Handles :
          /\ origin[h].op = "null" /\ origin[g].op = "clone"
          /\ origin[g].src = h
          /\ status[h] = "live" /\ status[g] = "dropped"
          /\ last.op = "drop" /\ last.h = g
    /\ \E a \in Addrs : heap[a].st = "live" /\ heap[a].count = 1

====
